---- MODULE Spec2Model ----
(***************************************************************************)
(* Debug Arena: the quiz session (QuizPage.tsx), its storage tables        *)
(* (the Supabase schema) and the leaderboard aggregation, as a state       *)
(* machine.                                                                *)
(*                                                                         *)
(* Text is a sequence of one-character strings.  A timestamp column holds  *)
(* the ordinal of the write that set it (0 is NULL), so that a second      *)
(* write to the column is visible.  Time is measured in firings of the     *)
(* one-second interval.  Every await of an async handler is one action:    *)
(* the awaited call's effect on storage together with the synchronous      *)
(* code that runs when it returns.                                         *)
(***************************************************************************)
EXTENDS Integers, Sequences, FiniteSets, TLC

\* ------------------------------------------------------------------ bounds

\* Questions of the quiz (when the quiz has any).
NumQuestions == 2
\* quizzes.time_per_question of the quiz, in seconds.
TimeLimit == 2
\* The clock of a question is followed up to this many seconds.
MaxElapsed == 3
\* Submit operations that may be in flight at once in one session.
MaxOps == 2
\* Timestamp ordinals are told apart up to this many writes.
MaxStamp == 2
MaxSheet == 1
MaxCodeLen == 6

\* useState(150) of timeLeft, and the fallback of the timer effect.
DefaultTimeLeft == 150

\* ------------------------------------------------------------------- text

Whitespace == {" ", "\t", "\n"}
LineTerminators == {"\n"}
Punctuation == {"{", "}", "(", ")", ";", ","}

\* String.prototype.toLowerCase, on the letters the model's texts use.
ToLowerChar(c) ==
  CASE c = "A" -> "a" [] c = "B" -> "b" [] c = "F" -> "f" [] c = "I" -> "i"
    [] c = "O" -> "o" [] c = "R" -> "r" [] c = "X" -> "x" [] OTHER -> c

toLowerCase(s) == [i \in 1..Len(s) |-> ToLowerChar(s[i])]

RECURSIVE TrimStart(_)
TrimStart(s) ==
  IF s # <<>> /\ Head(s) \in Whitespace THEN TrimStart(Tail(s)) ELSE s

RECURSIVE TrimEnd(_)
TrimEnd(s) ==
  IF s # <<>> /\ s[Len(s)] \in Whitespace
    THEN TrimEnd(SubSeq(s, 1, Len(s) - 1)) ELSE s

\* A trim of the right end only (String.prototype.trimEnd).
trim_RightOnly(s) == TrimEnd(s)

\* String.prototype.trim: both ends.
trim(s) == TrimEnd(TrimStart(s))

\* Index of the first "*/" at or after position j, 0 when there is none.
RECURSIVE BlockClose(_, _)
BlockClose(s, j) ==
  IF j + 1 > Len(s) THEN 0
  ELSE IF s[j] = "*" /\ s[j + 1] = "/" THEN j
  ELSE BlockClose(s, j + 1)

\* Index of the first line terminator at or after j, Len(s) + 1 when none.
RECURSIVE LineEnd(_, _)
LineEnd(s, j) ==
  IF j > Len(s) THEN j
  ELSE IF s[j] \in LineTerminators THEN j
  ELSE LineEnd(s, j + 1)

\* .replace(/\/\*[\s\S]*?\*\/|\/\/.*/g, ''): at each position the block
\* alternative is tried first, then the line alternative.
RECURSIVE StripFrom(_, _)
StripFrom(s, i) ==
  IF i > Len(s) THEN <<>>
  ELSE IF i < Len(s) /\ s[i] = "/" /\ s[i + 1] = "*" /\ BlockClose(s, i + 2) # 0
    THEN StripFrom(s, BlockClose(s, i + 2) + 2)
  ELSE IF i < Len(s) /\ s[i] = "/" /\ s[i + 1] = "/"
    THEN StripFrom(s, LineEnd(s, i + 2))
  ELSE <<s[i]>> \o StripFrom(s, i + 1)

StripComments(s) == StripFrom(s, 1)

\* .replace(/\s+/g, ' ')
RECURSIVE CollapseWhitespace(_)
CollapseWhitespace(s) ==
  IF s = <<>> THEN <<>>
  ELSE IF Head(s) \in Whitespace
    THEN <<" ">> \o CollapseWhitespace(TrimStart(s))
  ELSE <<Head(s)>> \o CollapseWhitespace(Tail(s))

\* First position at or after i that holds no whitespace.
RECURSIVE SkipWhitespace(_, _)
SkipWhitespace(s, i) ==
  IF i <= Len(s) /\ s[i] \in Whitespace THEN SkipWhitespace(s, i + 1) ELSE i

\* .replace(/\s*([{}();,])\s*/g, '$1'): leftmost match, scanning on after it.
RECURSIVE TightenFrom(_, _)
TightenFrom(s, i) ==
  IF i > Len(s) THEN <<>>
  ELSE LET p == SkipWhitespace(s, i)
       IN  IF p <= Len(s) /\ s[p] \in Punctuation
             THEN <<s[p]>> \o TightenFrom(s, SkipWhitespace(s, p + 1))
             ELSE <<s[i]>> \o TightenFrom(s, i + 1)

TightenPunctuation(s) == TightenFrom(s, 1)

normalizeCode(code) ==
  toLowerCase(trim(TightenPunctuation(CollapseWhitespace(StripComments(code)))))

\* ------------------------------------------------------------ quiz content

Learner == "u1"
OtherUser == "u2"
TheQuiz == "qz"

\* quiz_assignments.id values a route may carry: the learner's assignment,
\* another user's assignment, and an id no row has.
OwnAssignment == "a1"
ForeignAssignment == "ax"
MissingAssignment == "a?"
RouteIds == {OwnAssignment, ForeignAssignment, MissingAssignment}

QuestionIds == 1..NumQuestions

CanonicalCode == <<"a", ";">>
BuggyCode == <<"b", ";">>
\* The canonical code retyped with another case and spacing.
RetypedCode == <<"A", " ", ";">>
EditorTexts == {BuggyCode, RetypedCode}

\* questions.incorrect_code, correct_code, expected_output (odd questions
\* carry an expected output, even ones none).
incorrect_code(q) == BuggyCode
correct_code(q) == CanonicalCode
expected_output(q) == IF q % 2 = 1 THEN <<"4">> ELSE <<>>

\* quizzes.time_per_question
time_per_question(qz) == TimeLimit

\* What the execution service answers: the request throws, the body has no
\* run object, the run has no stdout, or the run has a stdout text.
Throws == <<"throw">>
NoRun == <<"norun">>
NoStdout == <<"undefined">>
Pending == <<"pending">>
StdoutTexts == {<<"4", "\n">>, <<" ", "4">>, <<"7">>}
RunOutputs == StdoutTexts \cup {NoStdout}
ExecResponses == {Throws, NoRun} \cup RunOutputs

\* ---------------------------------------------------------------- state

VARIABLES
  \* storage
  db_questions,        \* ids of the rows of public.questions of the quiz
  quiz_assignments,    \* rows of public.quiz_assignments
  question_orders,     \* rows of public.question_orders
  submissions,         \* rows of public.submissions
  \* one QuizPage per session (browser tab)
  pc,                  \* where fetchQuizData stands
  assignmentId,        \* the route parameter
  assignment,          \* useState: the fetched assignment row
  quiz,                \* useState: the fetched quiz
  loading,
  questions,
  currentQuestionIndex,
  userCode,
  timeLeft,
  elapsed,             \* seconds since questionStartTime.current
  timerRef,            \* an interval is armed
  isSubmitting,
  quizCompleted,
  results,
  ops,                 \* handleSubmitAnswer calls in flight
  \* Leaderboard page
  selectedQuiz,
  leaderboard,
  \* a canonical text and a buffer under comparison, and the verdict
  codeA,
  codeB,
  judged,
  \* AdminDashboard: the assign dialog, and the toast it last showed
  adminSelectedQuiz,   \* useState selectedQuiz of AdminDashboard
  selectedUsers,
  isAssignDialogOpen,
  toast,
  \* anti-cheat: the tab's document.hidden, the page's warning counter, and
  \* the rows of public.cheat_logs
  documentHidden,
  tabSwitchCount,
  cheat_logs

dbVars == <<db_questions, quiz_assignments, question_orders, submissions>>
pageVars == <<pc, assignmentId, assignment, quiz, loading, questions,
              currentQuestionIndex, userCode, timeLeft, elapsed, timerRef,
              isSubmitting, quizCompleted, results, ops>>
boardVars == <<selectedQuiz, leaderboard>>
textVars == <<codeA, codeB, judged>>
adminVars == <<adminSelectedQuiz, selectedUsers, isAssignDialogOpen, toast>>
cheatVars == <<documentHidden, tabSwitchCount, cheat_logs>>
vars == <<dbVars, pageVars, boardVars, textVars, adminVars, cheatVars>>

Sessions == {"s1", "s2"}

None == "none"
\* undefined, for questions[currentQuestionIndex] out of range
NoQuestion == 0
NoAssignment ==
  [id |-> None, quiz_id |-> None, user_id |-> None, is_completed |-> FALSE,
   started_at |-> 0, completed_at |-> 0]
NoResults == [correct |-> -1, total |-> -1]

\* ---------------------------------------------------------------- storage

\* new Date().toISOString() written over a column holding `old`.
NextStamp(old) == IF old < MaxStamp THEN old + 1 ELSE MaxStamp

AssignmentRow(id, qz, u) ==
  [id |-> id, quiz_id |-> qz, user_id |-> u, is_completed |-> FALSE,
   started_at |-> 0, completed_at |-> 0]

\* The select without its .eq('user_id', user.id).
SelectAssignment_AnyUser(id, u) ==
  {r \in quiz_assignments : r.id = id}

\* .from('quiz_assignments').select('*').eq('id', id).eq('user_id', u)
SelectAssignment(id, u) ==
  {r \in quiz_assignments : r.id = id /\ r.user_id = u}

OrdersOf(a) == {r \in question_orders : r.assignment_id = a}
SubmissionsOf(a) == {r \in submissions : r.assignment_id = a}

\* The rows of R as a sequence with order_index ascending.
SortedByOrderIndex(R) ==
  CHOOSE f \in [1..Cardinality(R) -> R] :
    /\ \A i, j \in 1..Cardinality(R) : i # j => f[i] # f[j]
    /\ \A i, j \in 1..Cardinality(R) :
         i < j => f[i].order_index <= f[j].order_index

\* .from('question_orders').select('*, question:questions(*)')
\*   .eq('assignment_id', a).order('order_index'), then
\* .map(o => o.question).filter(Boolean)
SelectOrderedQuestions(a) ==
  LET rows == SortedByOrderIndex(OrdersOf(a))
      ids == [i \in 1..Len(rows) |-> rows[i].question_id]
  IN  SelectSeq(ids, LAMBDA q : q \in db_questions)

\* The table without its unique constraint.
OrdersConflict_None(rows) == FALSE

\* UNIQUE(assignment_id, question_id) of public.question_orders
OrdersConflict(rows) ==
  \E n \in rows : \E r \in question_orders :
    r.assignment_id = n.assignment_id /\ r.question_id = n.question_id

\* UNIQUE(assignment_id, question_id) of public.submissions
SubmissionConflict(row) ==
  \E r \in submissions :
    r.assignment_id = row.assignment_id /\ r.question_id = row.question_id

\* .update(fields).eq('id', a) on quiz_assignments
MarkStarted(a) ==
  {IF r.id = a THEN [r EXCEPT !.started_at = NextStamp(@)] ELSE r
     : r \in quiz_assignments}

MarkCompleted(a) ==
  {IF r.id = a
     THEN [r EXCEPT !.is_completed = TRUE, !.completed_at = NextStamp(@)]
     ELSE r
     : r \in quiz_assignments}

\* A tally that takes every stored submission for correct.
Tally_AllCorrect(a) ==
  [correct |-> Cardinality(SubmissionsOf(a)),
   total |-> Cardinality(SubmissionsOf(a))]

\* fetchResults: the tally over the assignment's submissions.
Tally(a) ==
  [correct |-> Cardinality({r \in SubmissionsOf(a) : r.is_correct}),
   total |-> Cardinality(SubmissionsOf(a))]

\* --------------------------------------------------------------- the page

\* [...questionsData].sort(() => Math.random() - 0.5): some arrangement.
Shuffles(S) ==
  {f \in [1..Cardinality(S) -> S] :
     \A i, j \in 1..Cardinality(S) : i # j => f[i] # f[j]}

\* questions[currentQuestionIndex] of a render (None for undefined).
QuestionAt(qs, idx) ==
  IF idx + 1 \in 1..Len(qs) THEN qs[idx + 1] ELSE NoQuestion

currentQuestion(s) == QuestionAt(questions[s], currentQuestionIndex[s])

\* The question view is rendered and the timer effect's condition holds.
Active(s) ==
  /\ pc[s] = "ready"
  /\ ~loading[s]
  /\ ~quizCompleted[s]
  /\ currentQuestion(s) # NoQuestion

\* quiz?.time_per_question || 150
EffectiveLimit(qz) ==
  IF qz = None \/ time_per_question(qz) = 0
    THEN DefaultTimeLeft ELSE time_per_question(qz)

\* if (typedAssignment.is_completed)
AlreadyCompleted_Ignored(row) == FALSE

AlreadyCompleted(row) == row.is_completed

\* orderedQuestions.findIndex(q => !answeredIds.has(q.id)), 0-based, -1 if none.
RECURSIVE FindIndexFrom(_, _, _)
FindIndexFrom(qs, answered, i) ==
  IF i > Len(qs) THEN -1
  ELSE IF qs[i] \notin answered THEN i - 1
  ELSE FindIndexFrom(qs, answered, i + 1)

\* A resume that starts over at the first question while one is unanswered.
FindFirstUnanswered_FromStart(qs, answered) ==
  IF FindIndexFrom(qs, answered, 1) = -1 THEN -1 ELSE 0

\* A resume at the number of answered questions of the sequence.
FindFirstUnanswered_CountAnswered(qs, answered) ==
  IF FindIndexFrom(qs, answered, 1) = -1 THEN -1
  ELSE Cardinality({i \in 1..Len(qs) : qs[i] \in answered})

FindFirstUnanswered(qs, answered) == FindIndexFrom(qs, answered, 1)

Set(f, s, v) == [f EXCEPT ![s] = v]

RemoveAt(seq, i) == SubSeq(seq, 1, i - 1) \o SubSeq(seq, i + 1, Len(seq))

\* The state of a QuizPage at mount: the useState and useRef initial values,
\* with fetchQuizData waiting for its first select.
Mounted(s, id, at) ==
  /\ pc' = Set(pc, s, at)
  /\ assignmentId' = Set(assignmentId, s, id)
  /\ assignment' = Set(assignment, s, NoAssignment)
  /\ quiz' = Set(quiz, s, None)
  /\ loading' = Set(loading, s, TRUE)
  /\ questions' = Set(questions, s, <<>>)
  /\ currentQuestionIndex' = Set(currentQuestionIndex, s, 0)
  /\ userCode' = Set(userCode, s, <<>>)
  /\ timeLeft' = Set(timeLeft, s, DefaultTimeLeft)
  /\ elapsed' = Set(elapsed, s, 0)
  /\ timerRef' = Set(timerRef, s, FALSE)
  /\ isSubmitting' = Set(isSubmitting, s, FALSE)
  /\ quizCompleted' = Set(quizCompleted, s, FALSE)
  /\ results' = Set(results, s, NoResults)
  /\ ops' = Set(ops, s, <<>>)

\* The page is opened on a route (again): a fresh component, whose effect
\* on [assignmentId] calls fetchQuizData.
Reload(s, id) ==
  /\ pc[s] # "closed"
  /\ Mounted(s, id, "assignment")
  /\ tabSwitchCount' = Set(tabSwitchCount, s, 0)
  /\ UNCHANGED <<documentHidden, cheat_logs>>
  /\ UNCHANGED <<dbVars, boardVars, textVars, adminVars>>

\* The timer effect, run for a render whose condition holds.
ArmTimer(s) ==
  /\ elapsed' = Set(elapsed, s, 0)
  /\ timeLeft' = Set(timeLeft, s, EffectiveLimit(quiz[s]))
  /\ timerRef' = Set(timerRef, s, TRUE)

\* fetchQuizData, first await: the assignment select, .single().
LoadAssignment(s) ==
  /\ pc[s] = "assignment"
  /\ LET rows == SelectAssignment(assignmentId[s], Learner)
     IN  IF Cardinality(rows) # 1
           THEN \* toast 'Assignment not found'; navigate('/')
                /\ pc' = Set(pc, s, "gone")
                /\ UNCHANGED <<assignment, quizCompleted>>
           ELSE LET typedAssignment == CHOOSE r \in rows : TRUE
                IN  /\ assignment' = Set(assignment, s, typedAssignment)
                    /\ IF AlreadyCompleted(typedAssignment)
                         THEN /\ quizCompleted' = Set(quizCompleted, s, TRUE)
                              /\ pc' = Set(pc, s, "results")
                         ELSE /\ pc' = Set(pc, s, "quiz")
                              /\ UNCHANGED quizCompleted
  /\ UNCHANGED <<assignmentId, quiz, loading, questions, currentQuestionIndex,
                 userCode, timeLeft, elapsed, timerRef, isSubmitting, results,
                 ops>>
  /\ UNCHANGED <<dbVars, boardVars, textVars, adminVars, cheatVars>>

\* The completed short-circuit: await fetchResults(); setLoading(false).
ShowResults(s) ==
  /\ pc[s] = "results"
  /\ results' = Set(results, s, Tally(assignmentId[s]))
  /\ loading' = Set(loading, s, FALSE)
  /\ pc' = Set(pc, s, "ready")
  /\ UNCHANGED <<assignmentId, assignment, quiz, questions,
                 currentQuestionIndex, userCode, timeLeft, elapsed, timerRef,
                 isSubmitting, quizCompleted, ops>>
  /\ UNCHANGED <<dbVars, boardVars, textVars, adminVars, cheatVars>>

\* The quiz select: setQuiz, setTimeLeft.
LoadQuiz(s) ==
  /\ pc[s] = "quiz"
  /\ quiz' = Set(quiz, s, assignment[s].quiz_id)
  /\ timeLeft' = Set(timeLeft, s, time_per_question(assignment[s].quiz_id))
  /\ pc' = Set(pc, s, "orders")
  /\ UNCHANGED <<assignmentId, assignment, loading, questions,
                 currentQuestionIndex, userCode, elapsed, timerRef,
                 isSubmitting, quizCompleted, results, ops>>
  /\ UNCHANGED <<dbVars, boardVars, textVars, adminVars, cheatVars>>

\* The effect on [currentQuestion]: the buffer takes the question's buggy text.
BufferFor(s, q) == IF q # NoQuestion THEN incorrect_code(q) ELSE userCode[s]

\* A load that takes the stored order, whatever rows there are.
HasOrder_Always(orderData) == TRUE

\* if (orderData && orderData.length > 0)
HasOrder(orderData) == orderData # {}

\* The question_orders select and the branch on orderData.length.
LoadOrder(s) ==
  /\ pc[s] = "orders"
  /\ LET orderedQuestions == SelectOrderedQuestions(assignmentId[s])
     IN  IF HasOrder(OrdersOf(assignmentId[s]))
           THEN /\ questions' = Set(questions, s, orderedQuestions)
                /\ userCode' = Set(userCode, s,
                       BufferFor(s, QuestionAt(orderedQuestions, 0)))
                /\ pc' = Set(pc, s, "subs")
           ELSE /\ pc' = Set(pc, s, "questions")
                /\ UNCHANGED <<questions, userCode>>
  /\ UNCHANGED <<assignmentId, assignment, quiz, loading,
                 currentQuestionIndex, timeLeft, elapsed, timerRef,
                 isSubmitting, quizCompleted, results, ops>>
  /\ UNCHANGED <<dbVars, boardVars, textVars, adminVars, cheatVars>>

\* The submissions select, the resume index, and completion when nothing is
\* left; otherwise the end of fetchQuizData.
LoadSubmissions(s) ==
  /\ pc[s] = "subs"
  /\ LET answeredIds == {r.question_id : r \in SubmissionsOf(assignmentId[s])}
         nextIndex == FindFirstUnanswered(questions[s], answeredIds)
     IN  IF nextIndex = -1 \/ nextIndex >= Len(questions[s])
           THEN /\ currentQuestionIndex' =
                     Set(currentQuestionIndex, s,
                         IF nextIndex = -1 THEN Len(questions[s]) ELSE nextIndex)
                /\ pc' = Set(pc, s, "complete")
                /\ UNCHANGED <<loading, userCode, timeLeft, elapsed, timerRef>>
           ELSE /\ currentQuestionIndex' = Set(currentQuestionIndex, s, nextIndex)
                /\ userCode' = Set(userCode, s,
                       BufferFor(s, QuestionAt(questions[s], nextIndex)))
                /\ loading' = Set(loading, s, FALSE)
                /\ pc' = Set(pc, s, "ready")
                /\ ArmTimer(s)
  /\ UNCHANGED <<assignmentId, assignment, quiz, questions, isSubmitting,
                 quizCompleted, results, ops>>
  /\ UNCHANGED <<dbVars, boardVars, textVars, adminVars, cheatVars>>

\* completeQuiz called by fetchQuizData: the update of the assignment.
LoadCompleteUpdate(s) ==
  /\ pc[s] = "complete"
  /\ quiz_assignments' = MarkCompleted(assignmentId[s])
  /\ pc' = Set(pc, s, "tally")
  /\ UNCHANGED <<assignmentId, assignment, quiz, loading, questions,
                 currentQuestionIndex, userCode, timeLeft, elapsed, timerRef,
                 isSubmitting, quizCompleted, results, ops>>
  /\ UNCHANGED <<db_questions, question_orders, submissions, boardVars, textVars, adminVars, cheatVars>>

\* completeQuiz called by fetchQuizData: fetchResults, setQuizCompleted(true),
\* and back in fetchQuizData setLoading(false).
LoadCompleteResults(s) ==
  /\ pc[s] = "tally"
  /\ results' = Set(results, s, Tally(assignmentId[s]))
  /\ quizCompleted' = Set(quizCompleted, s, TRUE)
  /\ loading' = Set(loading, s, FALSE)
  /\ pc' = Set(pc, s, "ready")
  /\ UNCHANGED <<assignmentId, assignment, quiz, questions,
                 currentQuestionIndex, userCode, timeLeft, elapsed, timerRef,
                 isSubmitting, ops>>
  /\ UNCHANGED <<dbVars, boardVars, textVars, adminVars, cheatVars>>

\* First load: the questions select and the shuffle.
LoadQuestions(s, shuffled) ==
  /\ pc[s] = "questions"
  /\ shuffled \in Shuffles(db_questions)
  /\ questions' = Set(questions, s, shuffled)
  /\ userCode' = Set(userCode, s, BufferFor(s, QuestionAt(shuffled, 0)))
  /\ pc' = Set(pc, s, "insert_orders")
  /\ UNCHANGED <<assignmentId, assignment, quiz, loading,
                 currentQuestionIndex, timeLeft, elapsed, timerRef,
                 isSubmitting, quizCompleted, results, ops>>
  /\ UNCHANGED <<dbVars, boardVars, textVars, adminVars, cheatVars>>

\* shuffled.map((q, idx) => ({assignment_id, question_id, order_index}))
OrderRows(a, shuffled) ==
  {[assignment_id |-> a, question_id |-> shuffled[i], order_index |-> i - 1]
     : i \in 1..Len(shuffled)}

\* First load: the insert of the order rows (one statement: all or none);
\* its outcome is not looked at.
InsertOrders(s, ok) ==
  /\ pc[s] = "insert_orders"
  /\ LET orders == OrderRows(assignmentId[s], questions[s])
     IN  question_orders' =
           IF ok /\ ~OrdersConflict(orders)
             THEN question_orders \cup orders ELSE question_orders
  /\ pc' = Set(pc, s, "started")
  /\ UNCHANGED <<assignmentId, assignment, quiz, loading, questions,
                 currentQuestionIndex, userCode, timeLeft, elapsed, timerRef,
                 isSubmitting, quizCompleted, results, ops>>
  /\ UNCHANGED <<db_questions, quiz_assignments, submissions, boardVars, textVars, adminVars, cheatVars>>

\* First load: the started_at update, then the end of fetchQuizData.
UpdateStarted(s) ==
  /\ pc[s] = "started"
  /\ quiz_assignments' = MarkStarted(assignmentId[s])
  /\ loading' = Set(loading, s, FALSE)
  /\ pc' = Set(pc, s, "ready")
  /\ IF currentQuestion(s) # NoQuestion
       THEN ArmTimer(s)
       ELSE UNCHANGED <<timeLeft, elapsed, timerRef>>
  /\ UNCHANGED <<assignmentId, assignment, quiz, questions,
                 currentQuestionIndex, userCode, isSubmitting, quizCompleted,
                 results, ops>>
  /\ UNCHANGED <<db_questions, question_orders, submissions, boardVars, textVars, adminVars, cheatVars>>

\* ------------------------------------------------------------- the engine

\* What a render's closures hold of the component state.
RenderOf(s) ==
  [questions |-> questions[s], currentQuestionIndex |-> currentQuestionIndex[s],
   userCode |-> userCode[s], isSubmitting |-> isSubmitting[s]]

\* The first render of the component: the useState initial values.
FirstRender ==
  [questions |-> <<>>, currentQuestionIndex |-> 0, userCode |-> <<>>,
   isSubmitting |-> FALSE]

\* handleAutoSubmit = useCallback(() => handleSubmitAnswer(), []): the
\* dependency list is empty, so the callback keeps calling the
\* handleSubmitAnswer of the render that created it.
AutoSubmitRender(s) == FirstRender

\* normalizeCode(userCode) === normalizeCode(currentQuestion.correct_code)
CodeMatches(code, q) == normalizeCode(code) = normalizeCode(correct_code(q))

\* data.run && data.run.stdout?.trim() === expected_output.trim()
OutputMatches(data, q) ==
  /\ data \in StdoutTexts
  /\ trim(data) = trim(expected_output(q))

\* A verdict that falls back to the code match whenever the output differs.
Verdict_CodeFallback(data, code, q) ==
  OutputMatches(data, q) \/ CodeMatches(code, q)

\* isCorrect once the execution request has returned `data` (or thrown).
Verdict(data, code, q) ==
  IF data = Throws THEN CodeMatches(code, q) ELSE OutputMatches(data, q)

\* handleSubmitAnswer of render r, up to its first await: the guard,
\* setIsSubmitting(true), clearInterval, timeTaken, and either the execution
\* request or (no expected output) the verdict by code.  The user_code column,
\* which nothing reads back, is not modelled.
handleSubmitAnswer(s, r) ==
  LET q == QuestionAt(r.questions, r.currentQuestionIndex)
  IN  IF q = NoQuestion \/ r.isSubmitting
        THEN UNCHANGED <<isSubmitting, timerRef, ops>>
        ELSE /\ isSubmitting' = Set(isSubmitting, s, TRUE)
             /\ timerRef' = Set(timerRef, s, FALSE)
             /\ ops' = Set(ops, s, Append(ops[s],
                  [stage |-> IF expected_output(q) # <<>> THEN "exec" ELSE "insert",
                   q |-> q,
                   idx |-> r.currentQuestionIndex,
                   len |-> Len(r.questions),
                   code |-> r.userCode,
                   timeTaken |-> elapsed[s],
                   data |-> Pending,
                   isCorrect |-> IF expected_output(q) # <<>>
                                   THEN FALSE ELSE CodeMatches(r.userCode, q)]))

\* The interval callback: setTimeLeft(prev => ...), which at prev <= 1 calls
\* handleAutoSubmit and returns 0.
Tick(s) ==
  /\ timerRef[s]
  /\ elapsed[s] < MaxElapsed
  /\ elapsed' = Set(elapsed, s, elapsed[s] + 1)
  /\ IF timeLeft[s] <= 1
       THEN /\ timeLeft' = Set(timeLeft, s, 0)
            /\ handleSubmitAnswer(s, AutoSubmitRender(s))
       ELSE /\ timeLeft' = Set(timeLeft, s, timeLeft[s] - 1)
            /\ UNCHANGED <<isSubmitting, timerRef, ops>>
  /\ UNCHANGED <<pc, assignmentId, assignment, quiz, loading, questions,
                 currentQuestionIndex, userCode, quizCompleted, results>>
  /\ UNCHANGED <<dbVars, boardVars, textVars, adminVars, cheatVars>>

\* The editor's onChange: setUserCode.  Typing while a submit is in flight
\* is left out: that operation has captured its buffer, and the next one
\* can only start once isSubmitting is false again.
EditCode(s, text) ==
  /\ Active(s)
  /\ ~isSubmitting[s]
  /\ text \in EditorTexts
  /\ text # userCode[s]
  /\ userCode' = Set(userCode, s, text)
  /\ UNCHANGED <<pc, assignmentId, assignment, quiz, loading, questions,
                 currentQuestionIndex, timeLeft, elapsed, timerRef,
                 isSubmitting, quizCompleted, results, ops>>
  /\ UNCHANGED <<dbVars, boardVars, textVars, adminVars, cheatVars>>

\* The Submit button (disabled while isSubmitting) of the rendered question.
StartSubmit(s) ==
  /\ Active(s)
  /\ ~isSubmitting[s]
  /\ Len(ops[s]) < MaxOps
  /\ handleSubmitAnswer(s, RenderOf(s))
  /\ UNCHANGED <<pc, assignmentId, assignment, quiz, loading, questions,
                 currentQuestionIndex, userCode, timeLeft, elapsed,
                 quizCompleted, results>>
  /\ UNCHANGED <<dbVars, boardVars, textVars, adminVars, cheatVars>>

\* The execution request of operation i returns (or throws).
ExecReturn(s, i, data) ==
  /\ i \in 1..Len(ops[s])
  /\ ops[s][i].stage = "exec"
  /\ data \in ExecResponses
  /\ LET op == ops[s][i]
     IN  ops' = Set(ops, s, [ops[s] EXCEPT ![i] =
           [op EXCEPT !.stage = "insert", !.data = data,
                      !.isCorrect = Verdict(data, op.code, op.q)]])
  /\ UNCHANGED <<pc, assignmentId, assignment, quiz, loading, questions,
                 currentQuestionIndex, userCode, timeLeft, elapsed, timerRef,
                 isSubmitting, quizCompleted, results>>
  /\ UNCHANGED <<dbVars, boardVars, textVars, adminVars, cheatVars>>

SubmissionRow(a, op) ==
  [assignment_id |-> a, question_id |-> op.q, is_correct |-> op.isCorrect,
   time_taken |-> op.timeTaken]

\* The insert into a table without the unique constraint.
InsertedSubmission_NoUnique(row, ok) ==
  IF ok THEN submissions \cup {row} ELSE submissions

\* The table after the insert of `row`: the row is stored unless the request
\* failed on the way (ok false) or the unique constraint refuses it.
InsertedSubmission(row, ok) ==
  IF ok /\ ~SubmissionConflict(row) THEN submissions \cup {row} ELSE submissions

\* An operation that is past its insert: completeQuiz reads none of the
\* closure's values but assignmentId.
Completing(stage) ==
  [stage |-> stage, q |-> NoQuestion, idx |-> 0, len |-> 0, code |-> <<>>,
   timeTaken |-> 0, data |-> Pending, isCorrect |-> FALSE]

\* The submissions insert of operation i returns; its outcome is not looked
\* at.  setIsSubmitting(false), then the next question or completeQuiz.
InsertSubmission(s, i, ok) ==
  /\ i \in 1..Len(ops[s])
  /\ ops[s][i].stage = "insert"
  /\ LET op == ops[s][i]
         row == SubmissionRow(assignmentId[s], op)
     IN  /\ submissions' = InsertedSubmission(row, ok)
         /\ isSubmitting' = Set(isSubmitting, s, FALSE)
         /\ IF op.idx < op.len - 1
              THEN /\ currentQuestionIndex' =
                        Set(currentQuestionIndex, s, op.idx + 1)
                   /\ userCode' = Set(userCode, s,
                        BufferFor(s, QuestionAt(questions[s], op.idx + 1)))
                   /\ ops' = Set(ops, s, RemoveAt(ops[s], i))
                   /\ IF /\ ~quizCompleted[s]
                         /\ QuestionAt(questions[s], op.idx + 1) # NoQuestion
                         /\ op.idx + 1 # currentQuestionIndex[s]
                        THEN ArmTimer(s)
                        ELSE UNCHANGED <<timeLeft, elapsed, timerRef>>
              ELSE /\ ops' = Set(ops, s, [ops[s] EXCEPT ![i] =
                        Completing("complete")])
                   /\ UNCHANGED <<currentQuestionIndex, userCode, timeLeft,
                                  elapsed, timerRef>>
  /\ UNCHANGED <<pc, assignmentId, assignment, quiz, loading, questions,
                 quizCompleted, results>>
  /\ UNCHANGED <<db_questions, quiz_assignments, question_orders, boardVars,
                 textVars, adminVars, cheatVars>>

\* completeQuiz called by operation i: the update of the assignment.
CompleteUpdate(s, i) ==
  /\ i \in 1..Len(ops[s])
  /\ ops[s][i].stage = "complete"
  /\ quiz_assignments' = MarkCompleted(assignmentId[s])
  /\ ops' = Set(ops, s, [ops[s] EXCEPT ![i] = Completing("tally")])
  /\ UNCHANGED <<pc, assignmentId, assignment, quiz, loading, questions,
                 currentQuestionIndex, userCode, timeLeft, elapsed, timerRef,
                 isSubmitting, quizCompleted, results>>
  /\ UNCHANGED <<db_questions, question_orders, submissions, boardVars, textVars, adminVars, cheatVars>>

\* completeQuiz called by operation i: fetchResults, setQuizCompleted(true);
\* the timer effect's cleanup clears the interval.
CompleteResults(s, i) ==
  /\ i \in 1..Len(ops[s])
  /\ ops[s][i].stage = "tally"
  /\ results' = Set(results, s, Tally(assignmentId[s]))
  /\ quizCompleted' = Set(quizCompleted, s, TRUE)
  /\ timerRef' = Set(timerRef, s, FALSE)
  /\ ops' = Set(ops, s, RemoveAt(ops[s], i))
  /\ UNCHANGED <<pc, assignmentId, assignment, quiz, loading, questions,
                 currentQuestionIndex, userCode, timeLeft, elapsed,
                 isSubmitting>>
  /\ UNCHANGED <<dbVars, boardVars, textVars, adminVars, cheatVars>>

\* ------------------------------------------------------ the specification

ClosedPage ==
  [pc |-> "closed", assignmentId |-> None, assignment |-> NoAssignment,
   quiz |-> None, loading |-> TRUE, questions |-> <<>>,
   currentQuestionIndex |-> 0, userCode |-> <<>>,
   timeLeft |-> DefaultTimeLeft, elapsed |-> 0, timerRef |-> FALSE,
   isSubmitting |-> FALSE, quizCompleted |-> FALSE, results |-> NoResults,
   ops |-> <<>>]

\* Pages as records p[s]; the sessions of `open` have just been mounted.
InitPages(p) ==
  /\ pc = [s \in Sessions |-> p[s].pc]
  /\ assignmentId = [s \in Sessions |-> p[s].assignmentId]
  /\ assignment = [s \in Sessions |-> p[s].assignment]
  /\ quiz = [s \in Sessions |-> p[s].quiz]
  /\ loading = [s \in Sessions |-> p[s].loading]
  /\ questions = [s \in Sessions |-> p[s].questions]
  /\ currentQuestionIndex = [s \in Sessions |-> p[s].currentQuestionIndex]
  /\ userCode = [s \in Sessions |-> p[s].userCode]
  /\ timeLeft = [s \in Sessions |-> p[s].timeLeft]
  /\ elapsed = [s \in Sessions |-> p[s].elapsed]
  /\ timerRef = [s \in Sessions |-> p[s].timerRef]
  /\ isSubmitting = [s \in Sessions |-> p[s].isSubmitting]
  /\ quizCompleted = [s \in Sessions |-> p[s].quizCompleted]
  /\ results = [s \in Sessions |-> p[s].results]
  /\ ops = [s \in Sessions |-> p[s].ops]

InitStorage ==
  /\ db_questions \in {{}, QuestionIds}
  /\ quiz_assignments = {AssignmentRow(OwnAssignment, TheQuiz, Learner),
                         AssignmentRow(ForeignAssignment, TheQuiz, OtherUser)}
  /\ question_orders = {}
  /\ submissions = {}

\* AdminDashboard at mount: no quiz selected, no user ticked, the dialog
\* closed, no toast shown.
NoToast == [title |-> None, users |-> 0]

InitAdminIdle ==
  /\ adminSelectedQuiz = None
  /\ selectedUsers = {}
  /\ isAssignDialogOpen = FALSE
  /\ toast = NoToast

\* Every tab in front, no warning counted, an empty log.
InitCheatIdle ==
  /\ documentHidden = [s \in Sessions |-> FALSE]
  /\ tabSwitchCount = [s \in Sessions |-> 0]
  /\ cheat_logs = <<>>

InitIdle ==
  /\ selectedQuiz = "all"
  /\ leaderboard = <<>>
  /\ codeA = <<>>
  /\ codeB = <<>>
  /\ judged = "unjudged"
  /\ InitAdminIdle
  /\ InitCheatIdle

\* One tab: the learner opens a quiz route.
Init ==
  /\ InitStorage
  /\ \E id \in RouteIds :
       InitPages([s \in Sessions |->
         IF s = "s1"
           THEN [ClosedPage EXCEPT !.pc = "assignment", !.assignmentId = id]
           ELSE ClosedPage])
  /\ InitIdle

PageStep(s) ==
  \/ \E id \in RouteIds : Reload(s, id)
  \/ LoadAssignment(s)
  \/ ShowResults(s)
  \/ LoadQuiz(s)
  \/ LoadOrder(s)
  \/ LoadSubmissions(s)
  \/ LoadCompleteUpdate(s)
  \/ LoadCompleteResults(s)
  \/ \E shuffled \in Shuffles(db_questions) : LoadQuestions(s, shuffled)
  \/ \E ok \in BOOLEAN : InsertOrders(s, ok)
  \/ UpdateStarted(s)
  \/ Tick(s)
  \/ \E text \in EditorTexts : EditCode(s, text)
  \/ StartSubmit(s)
  \/ \E i \in 1..MaxOps + 1 : \E data \in ExecResponses : ExecReturn(s, i, data)
  \/ \E i \in 1..MaxOps + 1 : \E ok \in BOOLEAN : InsertSubmission(s, i, ok)
  \/ \E i \in 1..MaxOps + 1 : CompleteUpdate(s, i)
  \/ \E i \in 1..MaxOps + 1 : CompleteResults(s, i)

Next == \E s \in Sessions : PageStep(s)

Spec == Init /\ [][Next]_vars

\* How far the learner of an assignment has come.
Progress == {"assigned", "started", "completed"}
\* "answered": every question has its submission and the session ended
\* before completeQuiz had marked the assignment.
AutoProgress == Progress \cup {"answered"}

IdentityOrder == [i \in 1..NumQuestions |-> i]

ProgressRow(id, qz, u, progress) ==
  [id |-> id, quiz_id |-> qz, user_id |-> u,
   is_completed |-> (progress = "completed"),
   started_at |-> IF progress = "assigned" THEN 0 ELSE 1,
   completed_at |-> IF progress = "completed" THEN 1 ELSE 0]

ProgressOrders(id, progress) ==
  IF progress = "assigned" THEN {} ELSE OrderRows(id, IdentityOrder)

ProgressSubmissions(id, progress) ==
  IF progress \in {"answered", "completed"}
    THEN {[assignment_id |-> id, question_id |-> q, is_correct |-> TRUE,
           time_taken |-> 1] : q \in QuestionIds}
    ELSE {}

\* The learner opens the assignment, on which an earlier session has come
\* some way.
InitAuto ==
  /\ \E p \in AutoProgress :
       /\ quiz_assignments =
            {ProgressRow(OwnAssignment, TheQuiz, Learner, p),
             AssignmentRow(ForeignAssignment, TheQuiz, OtherUser)}
       /\ question_orders = ProgressOrders(OwnAssignment, p)
       /\ submissions = ProgressSubmissions(OwnAssignment, p)
  /\ db_questions = QuestionIds
  /\ InitPages([s \in Sessions |->
       IF s = "s1"
         THEN [ClosedPage EXCEPT !.pc = "assignment",
                                 !.assignmentId = OwnAssignment]
         ELSE ClosedPage])
  /\ InitIdle

\* One session played to its end without a reload.  The awaited calls
\* return (storage answers, the execution service sends a response) and the
\* interval fires, as long as they are due; whether the execution request
\* throws instead, and whether the learner types or presses Submit, is open.
Returns(s) ==
  \/ LoadAssignment(s)
  \/ ShowResults(s)
  \/ LoadQuiz(s)
  \/ LoadOrder(s)
  \/ LoadSubmissions(s)
  \/ LoadCompleteUpdate(s)
  \/ LoadCompleteResults(s)
  \/ \E shuffled \in Shuffles(db_questions) : LoadQuestions(s, shuffled)
  \/ \E ok \in BOOLEAN : InsertOrders(s, ok)
  \/ UpdateStarted(s)
  \/ \E i \in 1..MaxOps + 1 : \E data \in ExecResponses \ {Throws} :
       ExecReturn(s, i, data)
  \/ \E i \in 1..MaxOps + 1 : \E ok \in BOOLEAN : InsertSubmission(s, i, ok)
  \/ \E i \in 1..MaxOps + 1 : CompleteUpdate(s, i)
  \/ \E i \in 1..MaxOps + 1 : CompleteResults(s, i)

NextAuto ==
  \E s \in Sessions :
    \/ Returns(s)
    \/ \E i \in 1..MaxOps + 1 : ExecReturn(s, i, Throws)
    \/ Tick(s)
    \/ \E text \in EditorTexts : EditCode(s, text)
    \/ StartSubmit(s)

FairAuto ==
  \A s \in Sessions : WF_vars(Returns(s)) /\ WF_vars(Tick(s))

SpecAuto == InitAuto /\ [][NextAuto]_vars /\ FairAuto

\* Two tabs of the learner, both opening a quiz route, and only the loads:
\* nobody answers a question.  The completed short-circuit and the
\* completion by a load need Submissions and cannot happen here.
LoadStep(s) ==
  \/ \E id \in RouteIds : Reload(s, id)
  \/ LoadAssignment(s)
  \/ LoadQuiz(s)
  \/ LoadOrder(s)
  \/ LoadSubmissions(s)
  \/ \E shuffled \in Shuffles(db_questions) : LoadQuestions(s, shuffled)
  \/ \E ok \in BOOLEAN : InsertOrders(s, ok)
  \/ UpdateStarted(s)

InitLoad ==
  /\ InitStorage
  /\ InitPages([s \in Sessions |->
       [ClosedPage EXCEPT !.pc = "assignment", !.assignmentId = OwnAssignment]])
  /\ InitIdle

NextLoad == \E s \in Sessions : LoadStep(s)

SpecLoad == InitLoad /\ [][NextLoad]_vars

\* -------------------------------------------------------- the leaderboard

\* Learners with an assignment, in the order the sheets are dealt to them.
BoardLearners == <<"u1", "u2", "u3", "u4">>
AssignmentOf == [u1 |-> OwnAssignment, u2 |-> ForeignAssignment,
                 u3 |-> "a3", u4 |-> "a4"]
OtherQuiz == "qz2"
QuizFilters == {"all", TheQuiz, OtherQuiz}

\* The join without .eq('assignment.is_completed', true).
SelectBoardRows_AnyAssignment(qz) ==
  {r \in submissions :
     \E a \in quiz_assignments :
       /\ a.id = r.assignment_id
       /\ (qz = "all" \/ a.quiz_id = qz)}

\* .select('is_correct, time_taken, assignment:quiz_assignments!inner(...)')
\*   .eq('assignment.is_completed', true) and, unless 'all' is selected,
\*   .eq('assignment.quiz_id', selectedQuiz).  Every learner has a profile.
SelectBoardRows(qz) ==
  {r \in submissions :
     \E a \in quiz_assignments :
       /\ a.id = r.assignment_id
       /\ a.is_completed
       /\ (qz = "all" \/ a.quiz_id = qz)}

\* submission.assignment.user_id
UserOf(r) == (CHOOSE a \in quiz_assignments : a.id = r.assignment_id).user_id

RECURSIVE SumTimeTaken(_)
SumTimeTaken(R) ==
  IF R = {} THEN 0
  ELSE LET r == CHOOSE x \in R : TRUE
       IN  r.time_taken + SumTimeTaken(R \ {r})

\* The forEach over the rows: one entry per user, in the order in which the
\* users first occur in the rows (Object.values keeps insertion order).
userStats(data, firstSeen) ==
  [i \in 1..Len(firstSeen) |->
     LET mine == {r \in data : UserOf(r) = firstSeen[i]}
     IN  [user_id |-> firstSeen[i],
          correct_count |-> Cardinality({r \in mine : r.is_correct}),
          total_time |-> SumTimeTaken(mine),
          total_questions |-> Cardinality(mine)]]

\* A comparator that forgets the tie-break on time.
CompareEntries_CorrectOnly(a, b) == b.correct_count - a.correct_count

\* The comparator of the sort: negative when a goes first.
CompareEntries(a, b) ==
  IF b.correct_count # a.correct_count
    THEN b.correct_count - a.correct_count
    ELSE a.total_time - b.total_time

\* e put into the sorted seq behind every entry that does not go after it.
RECURSIVE InsertEntry(_, _)
InsertEntry(e, seq) ==
  IF seq = <<>> THEN <<e>>
  ELSE IF CompareEntries(Head(seq), e) > 0 THEN <<e>> \o seq
  ELSE <<Head(seq)>> \o InsertEntry(e, Tail(seq))

\* Array.prototype.sort with the comparator: a stable sort.
RECURSIVE sorted(_)
sorted(entries) ==
  IF entries = <<>> THEN <<>>
  ELSE InsertEntry(entries[Len(entries)],
                   sorted(SubSeq(entries, 1, Len(entries) - 1)))

\* idx is the 0-based index in the sorted list.
positionScore(idx) ==
  IF idx = 0 THEN 50 ELSE IF idx = 1 THEN 30 ELSE IF idx = 2 THEN 10 ELSE 0

correctBonus(entry) == entry.correct_count * 5

Max(a, b) == IF a >= b THEN a ELSE b

\* Math.round(num / den) for den > 0: the nearest integer, halves upwards.
MathRound(num, den) == (2 * num + den) \div (2 * den)

\* The speed bonus with Math.floor in the place of Math.round.
speedBonus_Floor(entry) ==
  IF entry.total_questions > 0
    THEN Max(0, (120 * entry.total_questions - entry.total_time)
                  \div (6 * entry.total_questions))
    ELSE 0

\* avgTime = total_questions > 0 ? total_time / total_questions : 999;
\* Math.max(0, Math.round(20 - avgTime / 6)), 20 - avgTime / 6 being
\* (120 * total_questions - total_time) / (6 * total_questions).
speedBonus(entry) ==
  IF entry.total_questions > 0
    THEN Max(0, MathRound(120 * entry.total_questions - entry.total_time,
                          6 * entry.total_questions))
    ELSE Max(0, MathRound(120 - 999, 6))

\* sorted.map((entry, idx) => ({...entry, score}))
scored(list) ==
  [i \in 1..Len(list) |->
     [user_id |-> list[i].user_id,
      correct_count |-> list[i].correct_count,
      total_time |-> list[i].total_time,
      total_questions |-> list[i].total_questions,
      score |-> positionScore(i - 1) + correctBonus(list[i])
                  + speedBonus(list[i])]]

\* The orders in which the users of the rows can first occur.
FirstSeenOrders(data) == Shuffles({UserOf(r) : r \in data})

\* fetchLeaderboard, the rows arriving with their users first seen in the
\* order firstSeen.
FetchedLeaderboard(qz, firstSeen) ==
  scored(sorted(userStats(SelectBoardRows(qz), firstSeen)))

\* The effect on [selectedQuiz] at mount, or a refresh of the page.
fetchLeaderboard(firstSeen) ==
  /\ firstSeen \in FirstSeenOrders(SelectBoardRows(selectedQuiz))
  /\ leaderboard' = FetchedLeaderboard(selectedQuiz, firstSeen)
  /\ UNCHANGED <<selectedQuiz, dbVars, pageVars, textVars, adminVars, cheatVars>>

\* The quiz filter is changed, and the effect on [selectedQuiz] fetches.
setSelectedQuiz(qz, firstSeen) ==
  /\ qz \in QuizFilters
  /\ qz # selectedQuiz
  /\ firstSeen \in FirstSeenOrders(SelectBoardRows(qz))
  /\ selectedQuiz' = qz
  /\ leaderboard' = FetchedLeaderboard(qz, firstSeen)
  /\ UNCHANGED <<dbVars, pageVars, textVars, adminVars, cheatVars>>

\* What a learner's finished session left behind: per question, in the
\* learner's order, whether the answer was correct and the seconds taken.
TimesTaken == {1, 129}
Outcomes == [is_correct : BOOLEAN, time_taken : TimesTaken]
OutcomeWeight(o) == (IF o.is_correct THEN 1 ELSE 0) + 2 * o.time_taken
\* The leaderboard reads no question id: a sheet lists its outcomes in
\* descending order.
Sheets ==
  {sheet \in UNION {[1..n -> Outcomes] : n \in 0..MaxSheet} :
     \A i, j \in 1..Len(sheet) :
       i < j => OutcomeWeight(sheet[i]) >= OutcomeWeight(sheet[j])}

Repeated(o, n) == [i \in 1..n |-> o]

\* Three learners over five questions: 5 correct in 120 s, 5 correct in
\* 90 s, 3 correct in 200 s.
ExampleSheets ==
  <<Repeated([is_correct |-> TRUE, time_taken |-> 24], 5),
    Repeated([is_correct |-> TRUE, time_taken |-> 18], 5),
    Repeated([is_correct |-> TRUE, time_taken |-> 40], 3)
      \o Repeated([is_correct |-> FALSE, time_taken |-> 40], 2),
    <<>>>>

RECURSIVE SheetWeight(_)
SheetWeight(sheet) ==
  IF sheet = <<>> THEN 0
  ELSE 1 + OutcomeWeight(Head(sheet)) + 1000 * SheetWeight(Tail(sheet))

\* The learners being interchangeable, sheets are dealt in ascending order.
Deals ==
  {d \in [1..Len(BoardLearners) -> Sheets] :
     \A i, j \in 1..Len(BoardLearners) :
       i < j => SheetWeight(d[i]) <= SheetWeight(d[j])}

SheetRows(a, sheet) ==
  {[assignment_id |-> a, question_id |-> q,
    is_correct |-> sheet[q].is_correct, time_taken |-> sheet[q].time_taken]
     : q \in 1..Len(sheet)}

\* Storage after the learners of `deal` have played; the last learner's
\* assignment is completed ("done"), still in progress, or of another quiz.
InitBoardStorage(deal, last) ==
  LET n == Len(BoardLearners)
      longest == CHOOSE m \in 0..5 : /\ \A i \in 1..n : Len(deal[i]) <= m
                                     /\ \E i \in 1..n : Len(deal[i]) = m
  IN  /\ db_questions = 1..longest
      /\ quiz_assignments =
           {[id |-> AssignmentOf[BoardLearners[i]],
             quiz_id |-> IF i = n /\ last = "other" THEN OtherQuiz ELSE TheQuiz,
             user_id |-> BoardLearners[i],
             is_completed |-> ~(i = n /\ last = "progress"),
             started_at |-> 1,
             completed_at |-> IF i = n /\ last = "progress" THEN 0 ELSE 1]
              : i \in 1..n}
      /\ question_orders =
           {[assignment_id |-> AssignmentOf[BoardLearners[i]],
             question_id |-> q, order_index |-> q - 1]
              : i \in 1..n, q \in 1..longest}
      /\ submissions =
           UNION {SheetRows(AssignmentOf[BoardLearners[i]], deal[i]) : i \in 1..n}

\* The Leaderboard page at mount, over some storage.
InitBoard ==
  /\ \/ \E deal \in Deals : \E last \in {"done", "progress", "other"} :
          InitBoardStorage(deal, last)
     \/ InitBoardStorage(ExampleSheets, "done")
  /\ InitPages([s \in Sessions |-> ClosedPage])
  /\ selectedQuiz = "all"
  /\ leaderboard = <<>>
  /\ codeA = <<>>
  /\ codeB = <<>>
  /\ judged = "unjudged"
  /\ InitAdminIdle
  /\ InitCheatIdle

NextBoard ==
  \/ \E firstSeen \in FirstSeenOrders(SelectBoardRows(selectedQuiz)) :
       fetchLeaderboard(firstSeen)
  \/ \E qz \in QuizFilters :
       \E firstSeen \in FirstSeenOrders(SelectBoardRows(qz)) :
         setSelectedQuiz(qz, firstSeen)

SpecBoard == InitBoard /\ [][NextBoard]_vars

\* ------------------------------------------------- the code comparison

\* "for(i=0;i<5;i++){ }"
ExampleCanonical ==
  <<"f", "o", "r", "(", "i", "=", "0", ";", "i", "<", "5", ";", "i", "+", "+",
    ")", "{", " ", "}">>

\* "FOR (i=0; i<5; i++) { }  // loop"
ExampleRetyped ==
  <<"F", "O", "R", " ", "(", "i", "=", "0", ";", " ", "i", "<", "5", ";", " ",
    "i", "+", "+", ")", " ", "{", " ", "}", " ", " ", "/", "/", " ", "l", "o",
    "o", "p">>

\* "a=b;"
SeedCode == <<"a", "=", "b", ";">>

LowerLetters == {"a", "b", "x"}
UpperLetters == {"A", "B", "X"}
ToUpperChar(c) ==
  CASE c = "a" -> "A" [] c = "b" -> "B" [] c = "x" -> "X" [] OTHER -> c
SwapCase(c) == IF c \in LowerLetters THEN ToUpperChar(c) ELSE ToLowerChar(c)

WordChars == LowerLetters \cup UpperLetters \cup {"0", "5"}
OperatorChars == {"=", "<", "+", "/", "*"}

InsertAt(s, i, t) == SubSeq(s, 1, i) \o t \o SubSeq(s, i + 1, Len(s))

\* Between s[i] and s[i + 1] one token ends: a text put there splits no
\* word and no operator.
TokenBoundary(s, i) ==
  LET l == IF i >= 1 THEN s[i] ELSE " "
      r == IF i < Len(s) THEN s[i + 1] ELSE " "
  IN  /\ ~(l \in WordChars /\ r \in WordChars)
      /\ ~(l \in OperatorChars /\ r \in OperatorChars)

CommentFree(s) == \A i \in 1..Len(s) : s[i] \notin {"/", "*"}

\* The learner retypes the buffer: the case of one letter.
ChangeCase(i) ==
  /\ Len(codeB) <= MaxCodeLen
  /\ i \in 1..Len(codeB)
  /\ codeB[i] \in LowerLetters \cup UpperLetters
  /\ codeB' = [codeB EXCEPT ![i] = SwapCase(@)]
  /\ judged' = "unjudged"
  /\ UNCHANGED <<codeA, dbVars, pageVars, boardVars, adminVars, cheatVars>>

\* The learner retypes the buffer: whitespace between two tokens, or more
\* of it where there is some.
InsertWhitespace(i, w) ==
  /\ Len(codeB) < MaxCodeLen
  /\ CommentFree(codeB)
  /\ i \in 0..Len(codeB)
  /\ w \in Whitespace
  /\ TokenBoundary(codeB, i)
  /\ codeB' = InsertAt(codeB, i, <<w>>)
  /\ judged' = "unjudged"
  /\ UNCHANGED <<codeA, dbVars, pageVars, boardVars, adminVars, cheatVars>>

\* The learner retypes the buffer: a block comment between two tokens.
InsertBlockComment(i) ==
  /\ Len(codeB) < MaxCodeLen
  /\ CommentFree(codeB)
  /\ i \in 0..Len(codeB)
  /\ TokenBoundary(codeB, i)
  /\ codeB' = InsertAt(codeB, i, <<"/", "*", "x", "*", "/">>)
  /\ judged' = "unjudged"
  /\ UNCHANGED <<codeA, dbVars, pageVars, boardVars, adminVars, cheatVars>>

\* The learner retypes the buffer: a line comment at the end.
AppendLineComment ==
  /\ Len(codeB) < MaxCodeLen
  /\ CommentFree(codeB)
  /\ codeB' = codeB \o <<"/", "/", "x">>
  /\ judged' = "unjudged"
  /\ UNCHANGED <<codeA, dbVars, pageVars, boardVars, adminVars, cheatVars>>

\* The code match of handleSubmitAnswer on the two texts.
JudgeCode ==
  /\ judged = "unjudged"
  /\ judged' = IF normalizeCode(codeB) = normalizeCode(codeA)
                 THEN "equal" ELSE "different"
  /\ UNCHANGED <<codeA, codeB, dbVars, pageVars, boardVars, adminVars, cheatVars>>

\* The buffer starts as the canonical text, or the two are the example pair.
InitNorm ==
  /\ InitStorage
  /\ InitPages([s \in Sessions |-> ClosedPage])
  /\ selectedQuiz = "all"
  /\ leaderboard = <<>>
  /\ \/ codeA = SeedCode /\ codeB = SeedCode
     \/ codeA = ExampleCanonical /\ codeB = ExampleRetyped
  /\ judged = "unjudged"
  /\ InitAdminIdle
  /\ InitCheatIdle

NextNorm ==
  \/ \E i \in 1..MaxCodeLen : ChangeCase(i)
  \/ \E i \in 0..MaxCodeLen : \E w \in Whitespace : InsertWhitespace(i, w)
  \/ \E i \in 0..MaxCodeLen : InsertBlockComment(i)
  \/ AppendLineComment
  \/ JudgeCode

SpecNorm == InitNorm /\ [][NextNorm]_vars

\* ------------------------------------------------------ the administrator

Quizzes == {TheQuiz, OtherQuiz}
\* The profiles the assign dialog lists.
Users == {Learner, OtherUser}

\* uuid_generate_v4() of quiz_assignments.id: an id no row has (of the ids
\* not in use, the first).
AssignmentIdPool ==
  <<OwnAssignment, ForeignAssignment, "a3", "a4", "a5", "a6", "a7", "a8">>

NewAssignmentId(rows) ==
  LET free == {i \in 1..Len(AssignmentIdPool) :
                 AssignmentIdPool[i] \notin {r.id : r \in rows}}
  IN  AssignmentIdPool[CHOOSE i \in free : \A j \in free : i <= j]

\* An insert that names no conflict target and meets no constraint.
UpsertOne_PlainInsert(rows, qz, u) ==
  rows \cup {AssignmentRow(NewAssignmentId(rows), qz, u)}

\* One row {quiz_id, user_id} of the upsert with onConflict 'quiz_id,user_id':
\* where UNIQUE(quiz_id, user_id) finds a row, the columns of the payload are
\* written over that row; otherwise a row with the column defaults is stored.
UpsertOne(rows, qz, u) ==
  IF \E r \in rows : r.quiz_id = qz /\ r.user_id = u
    THEN {IF r.quiz_id = qz /\ r.user_id = u
            THEN [r EXCEPT !.quiz_id = qz, !.user_id = u] ELSE r : r \in rows}
    ELSE rows \cup {AssignmentRow(NewAssignmentId(rows), qz, u)}

\* .upsert(assignments, { onConflict: 'quiz_id,user_id' })
RECURSIVE Upserted(_, _, _)
Upserted(rows, qz, users) ==
  IF users = {} THEN rows
  ELSE LET u == CHOOSE x \in users : TRUE
       IN  Upserted(UpsertOne(rows, qz, u), qz, users \ {u})

\* The Dialog's onOpenChange of the card of quiz qz.
onOpenChange(qz, open) ==
  /\ qz \in Quizzes
  /\ open # (isAssignDialogOpen /\ adminSelectedQuiz = qz)
  /\ isAssignDialogOpen' = open
  /\ adminSelectedQuiz' = IF open THEN qz ELSE adminSelectedQuiz
  /\ UNCHANGED <<selectedUsers, toast>>
  /\ UNCHANGED <<dbVars, pageVars, boardVars, textVars, cheatVars>>

\* The checkbox of user u in the open dialog.
toggleUser(u) ==
  /\ isAssignDialogOpen
  /\ adminSelectedQuiz # None
  /\ u \in Users
  /\ selectedUsers' = IF u \in selectedUsers
                        THEN selectedUsers \ {u} ELSE selectedUsers \cup {u}
  /\ UNCHANGED <<adminSelectedQuiz, isAssignDialogOpen, toast>>
  /\ UNCHANGED <<dbVars, pageVars, boardVars, textVars, cheatVars>>

\* The dialog's Assign button; ok is false when the request fails.
handleAssignQuiz(ok) ==
  /\ isAssignDialogOpen
  /\ adminSelectedQuiz # None
  /\ IF selectedUsers = {}
       THEN UNCHANGED <<quiz_assignments, adminVars, cheatVars>>
       ELSE IF ok
         THEN /\ quiz_assignments' =
                   Upserted(quiz_assignments, adminSelectedQuiz, selectedUsers)
              /\ toast' = [title |-> "Success",
                           users |-> Cardinality(selectedUsers)]
              /\ selectedUsers' = {}
              /\ isAssignDialogOpen' = FALSE
              /\ UNCHANGED adminSelectedQuiz
         ELSE /\ toast' = [title |-> "Error", users |-> 0]
              /\ UNCHANGED <<quiz_assignments, adminSelectedQuiz,
                             selectedUsers, isAssignDialogOpen>>
  /\ UNCHANGED <<db_questions, question_orders, submissions>>
  /\ UNCHANGED <<pageVars, boardVars, textVars, cheatVars>>

\* The quiz is assigned to both users, each of whom has come some way; the
\* learner opens the quiz page, the administrator the dashboard.
InitAdmin ==
  /\ \E p1, p2 \in Progress :
       /\ quiz_assignments =
            {ProgressRow(OwnAssignment, TheQuiz, Learner, p1),
             ProgressRow(ForeignAssignment, TheQuiz, OtherUser, p2)}
       /\ question_orders = ProgressOrders(OwnAssignment, p1)
                              \cup ProgressOrders(ForeignAssignment, p2)
       /\ submissions = ProgressSubmissions(OwnAssignment, p1)
                          \cup ProgressSubmissions(ForeignAssignment, p2)
  /\ db_questions = QuestionIds
  /\ InitPages([s \in Sessions |->
       IF s = "s1"
         THEN [ClosedPage EXCEPT !.pc = "assignment",
                                 !.assignmentId = OwnAssignment]
         ELSE ClosedPage])
  /\ InitIdle

NextAdmin ==
  \/ \E qz \in Quizzes : \E open \in BOOLEAN : onOpenChange(qz, open)
  \/ \E u \in Users : toggleUser(u)
  \/ \E ok \in BOOLEAN : handleAssignQuiz(ok)
  \/ LoadStep("s1")
  \/ ShowResults("s1")

SpecAdmin == InitAdmin /\ [][NextAdmin]_vars

\* ------------------------------------------------------------- anti-cheat

\* Anti-cheat events one run goes through.
MaxCheats == 2

Unmounted(s) == pc[s] \in {"closed", "gone"}

\* logCheatEvent: the insert into cheat_logs; its outcome is not looked at.
logCheatEvent(s, eventType, ok) ==
  cheat_logs' =
    IF ok
      THEN Append(cheat_logs, [user_id |-> Learner,
                               assignment_id |-> assignmentId[s],
                               event_type |-> eventType])
      ELSE cheat_logs

\* if (document.hidden && !quizCompleted && currentQuestion), past
\* document.hidden
TabSwitchGuard(s) == ~quizCompleted[s] /\ currentQuestion(s) # NoQuestion

\* The document's visibilitychange event, delivered to the listener of the
\* current render: the tab goes to the back or comes to the front.
handleVisibilityChange(s, ok) ==
  /\ ~Unmounted(s)
  /\ documentHidden' = Set(documentHidden, s, ~documentHidden[s])
  /\ IF ~documentHidden[s] /\ TabSwitchGuard(s)
       THEN /\ tabSwitchCount[s] < MaxCheats
            /\ Len(cheat_logs) < MaxCheats
            /\ tabSwitchCount' = Set(tabSwitchCount, s, tabSwitchCount[s] + 1)
            /\ logCheatEvent(s, "tab_switch", ok)
       ELSE UNCHANGED <<tabSwitchCount, cheat_logs>>
  /\ UNCHANGED <<dbVars, pageVars, boardVars, textVars, adminVars>>

\* The window's popstate event: while the quiz is not completed the location
\* is pushed again and a toast is shown, which leaves the page where it is;
\* the handler writes no state of the component and nothing to storage.
handlePopState(s) ==
  /\ ~Unmounted(s)
  /\ ~quizCompleted[s]
  /\ UNCHANGED <<documentHidden, tabSwitchCount, cheat_logs>>
  /\ UNCHANGED <<dbVars, pageVars, boardVars, textVars, adminVars>>

\* A key handler without e.preventDefault(): the paste goes through and the
\* clipboard's text, the canonical code, becomes the buffer.
BufferAfterKey_Pasted(code) == CanonicalCode

\* e.preventDefault(): the key's default action does not reach the buffer.
BufferAfterKey(code) == code

\* The editor's onKeyDown with Ctrl/Cmd and C or V: preventDefault, the log
\* entry, a toast.  The editor is part of the question view only.
onKeyDown(s, ok) ==
  /\ Active(s)
  /\ Len(cheat_logs) < MaxCheats
  /\ userCode' = Set(userCode, s, BufferAfterKey(userCode[s]))
  /\ logCheatEvent(s, "copy_paste_attempt", ok)
  /\ UNCHANGED <<documentHidden, tabSwitchCount>>
  /\ UNCHANGED <<pc, assignmentId, assignment, quiz, loading, questions,
                 currentQuestionIndex, timeLeft, elapsed, timerRef,
                 isSubmitting, quizCompleted, results, ops>>
  /\ UNCHANGED <<dbVars, boardVars, textVars, adminVars>>

CheatStep(s) ==
  \/ \E ok \in BOOLEAN : handleVisibilityChange(s, ok)
  \/ handlePopState(s)
  \/ \E ok \in BOOLEAN : onKeyDown(s, ok)

\* One session on the learner's assignment, played without a reload, with
\* the anti-cheat events.
NextCheat ==
  \E s \in Sessions :
    \/ Returns(s)
    \/ \E i \in 1..MaxOps + 1 : ExecReturn(s, i, Throws)
    \/ Tick(s)
    \/ \E text \in EditorTexts : EditCode(s, text)
    \/ StartSubmit(s)
    \/ CheatStep(s)

SpecCheat == InitAuto /\ [][NextCheat]_vars

\* ------------------------------------------------------------- the claims

Range(seq) == {seq[i] : i \in 1..Len(seq)}

\* C1: the stored submissions never hold two rows for the same
\* (assignment, question) pair, whatever the interleaving of submit
\* operations, timer ticks and reloads.
C1_OneSubmissionPerQuestion ==
  \A r1, r2 \in submissions :
    (r1.assignment_id = r2.assignment_id /\ r1.question_id = r2.question_id)
      => r1 = r2

\* Two submit operations of one session have both returned from their insert
\* for the last question (both are in completeQuiz), and one row is stored.
C1_Witness ==
  \E s \in Sessions :
    /\ Len(ops[s]) = 2
    /\ \A i \in 1..2 : ops[s][i].stage \in {"complete", "tally"}
    /\ Cardinality({r \in SubmissionsOf(assignmentId[s]) :
                      r.question_id = currentQuestion(s)}) = 1

\* C2: when the countdown of the active question has reached zero, a submit
\* operation for it has been started: while the question is still shown with
\* zero seconds left, that operation is in flight.
C2_ExpirySubmits ==
  \A s \in Sessions :
    (Active(s) /\ timeLeft[s] = 0) => ops[s] # <<>>

\* C3: two loads of the same assignment with no completion in between hand
\* the engine the same question sequence: two tabs that both show a question
\* of the assignment hold the same sequence.
C3_SameSequence ==
  \A s, t \in Sessions :
    (Active(s) /\ Active(t) /\ assignmentId[s] = assignmentId[t])
      => questions[s] = questions[t]

\* C4: a load that finds an order of N >= 1 questions of which exactly the
\* first K are answered sets the index to K; with K < N the question at K
\* becomes the active one, with K = N the load goes on to completeQuiz with
\* loading still set, so no question is active.
C4_ResumeIndex ==
  [][\A s \in Sessions :
       (pc[s] = "subs" /\ pc'[s] \in {"ready", "complete"}) =>
         LET order == SelectOrderedQuestions(assignmentId[s])
             N == Len(order)
             answered == {r.question_id : r \in SubmissionsOf(assignmentId[s])}
         IN  \A K \in 0..N :
               (N >= 1 /\ answered \cap Range(order) = {order[i] : i \in 1..K})
                 => /\ currentQuestionIndex'[s] = K
                    /\ K < N => (pc'[s] = "ready" /\ Active(s)'
                                 /\ currentQuestion(s)' = order[K + 1])
                    /\ K = N => (pc'[s] = "complete" /\ ~Active(s)')]_vars

\* A load has found every question of a two-question order answered and is
\* about to complete the assignment.
C4_Witness ==
  \E s \in Sessions :
    /\ pc[s] = "complete"
    /\ Len(questions[s]) = NumQuestions
    /\ currentQuestionIndex[s] = NumQuestions
    /\ loading[s]
    /\ Cardinality(SubmissionsOf(assignmentId[s])) = NumQuestions

\* C5: for a question with an expected output and a response that carries a
\* run result, the row the operation writes has is_correct true exactly when
\* the captured output, trimmed, is the expected output, trimmed; whether
\* the buffer normalizes to the canonical code plays no part.
C5_OutputDecides ==
  [][\A s \in Sessions : \A i \in 1..Len(ops[s]) :
       LET op == ops[s][i] IN
       (op.stage = "insert" /\ expected_output(op.q) # <<>>
          /\ op.data \in RunOutputs) =>
         \A r \in submissions' \ submissions :
           (r.assignment_id = assignmentId[s] /\ r.question_id = op.q) =>
             r.is_correct = (/\ op.data # NoStdout
                             /\ trim(op.data) = trim(expected_output(op.q)))]_vars

\* An operation whose buffer does not normalize to the canonical code got the
\* expected output back and is about to write a correct row.
C5_Witness ==
  \E s \in Sessions : \E i \in 1..Len(ops[s]) :
    /\ ops[s][i].stage = "insert"
    /\ ops[s][i].data = <<"4", "\n">>
    /\ normalizeCode(ops[s][i].code) # normalizeCode(correct_code(ops[s][i].q))
    /\ ops[s][i].isCorrect

\* C6: two texts that differ only in comment text, in whitespace between
\* tokens and in letter case are judged equal by the normalized comparison.
C6_JudgedEqual == judged # "different"

\* C7: every entry of the ranked list has score = position bonus of its rank
\* (50, 30, 10, then 0) + 5 * correct_count + max(0, r), r being the integer
\* nearest to 20 - (total_time / total_questions) / 6; and over the
\* submissions of the example the list is u2 (90 s) with 92, u1 (120 s)
\* with 71, u3 with 38.
C7_Score ==
  /\ \A i \in 1..Len(leaderboard) :
       LET e == leaderboard[i]
           Q == e.total_questions
           T == e.total_time
           bonus == CASE i = 1 -> 50 [] i = 2 -> 30 [] i = 3 -> 10 [] OTHER -> 0
       IN  /\ Q >= 1
           /\ \E r \in -50..20 :
                /\ 6 * Q * (2 * r - 1) <= 2 * (120 * Q - T)
                /\ 2 * (120 * Q - T) <= 6 * Q * (2 * r + 1)
                /\ e.score = bonus + 5 * e.correct_count
                               + (IF r > 0 THEN r ELSE 0)
  /\ (leaderboard # <<>>
        /\ submissions = UNION {SheetRows(AssignmentOf[BoardLearners[i]],
                                          ExampleSheets[i]) : i \in 1..4})
       => [i \in 1..Len(leaderboard) |->
             <<leaderboard[i].user_id, leaderboard[i].correct_count,
               leaderboard[i].total_time, leaderboard[i].score>>]
            = << <<"u2", 5, 90, 92>>, <<"u1", 5, 120, 71>>, <<"u3", 3, 200, 38>> >>

\* The list fetched over the submissions of the example.
C7_Witness ==
  /\ Len(leaderboard) = 3
  /\ leaderboard[1].total_questions = 5
  /\ leaderboard[1].score = 92
  /\ leaderboard[3].score = 38

\* C8: of two adjacent entries of the list the earlier one has the greater
\* correct_count, or the same correct_count and a total_time that is not
\* greater.
C8_Ordered ==
  \A i \in 1..Len(leaderboard) - 1 :
    \/ leaderboard[i].correct_count > leaderboard[i + 1].correct_count
    \/ /\ leaderboard[i].correct_count = leaderboard[i + 1].correct_count
       /\ leaderboard[i].total_time <= leaderboard[i + 1].total_time

\* A list of four entries in which two neighbours tie on correct_count and
\* the faster one stands first.
C8_Witness ==
  /\ Len(leaderboard) = 4
  /\ \E i \in 1..3 :
       /\ leaderboard[i].correct_count = leaderboard[i + 1].correct_count
       /\ leaderboard[i].total_time < leaderboard[i + 1].total_time

\* C9: a page opened on an assignment of another learner, or on one that
\* does not exist, gets no further than 'Assignment not found': no question
\* is active, no timer runs, no submit starts, and that assignment has no
\* order rows, no submissions, and its row (start stamp, completion flag and
\* stamp) is as it was.
C9_NotFound ==
  /\ \A s \in Sessions :
       assignmentId[s] \in {ForeignAssignment, MissingAssignment} =>
         /\ pc[s] \in {"assignment", "gone"}
         /\ ~Active(s)
         /\ ~timerRef[s]
         /\ ops[s] = <<>>
         /\ questions[s] = <<>>
  /\ \A a \in {ForeignAssignment, MissingAssignment} :
       OrdersOf(a) = {} /\ SubmissionsOf(a) = {}
  /\ {r \in quiz_assignments : r.id # OwnAssignment} =
       {AssignmentRow(ForeignAssignment, TheQuiz, OtherUser)}

\* The load of another learner's assignment has ended in the redirect.
C9_Witness ==
  \E s \in Sessions : pc[s] = "gone" /\ assignmentId[s] = ForeignAssignment

\* C10: a page whose load found the completion flag set shows the Completed
\* view with the tally of the stored submissions; it never has an active
\* question, a timer or a submit operation, and none of its steps changes
\* the stored orders, submissions or assignment rows.
C10_CompletedLoad ==
  /\ [](\A s \in Sessions :
          assignment[s].is_completed =>
            /\ pc[s] \in {"results", "ready"}
            /\ quizCompleted[s]
            /\ ~Active(s)
            /\ ~timerRef[s]
            /\ ops[s] = <<>>
            /\ pc[s] = "ready" =>
                 (~loading[s] /\ results[s] = Tally(assignmentId[s])))
  /\ [][(\E s \in Sessions : assignment[s].is_completed)
          => UNCHANGED dbVars]_vars

\* The Completed view of an assignment loaded with its flag already set,
\* showing a tally over two submissions.
C10_Witness ==
  \E s \in Sessions :
    /\ pc[s] = "ready"
    /\ assignment[s].is_completed
    /\ results[s].total = NumQuestions

\* C11: there is never more than one assignment row for a (quiz, learner)
\* pair; an assign leaves every existing row as it was (completion flag,
\* start and completion stamps included), and after an assign that went
\* through each ticked user has exactly one row for the quiz.
C11_OneAssignmentPerPair ==
  /\ [](\A r1, r2 \in quiz_assignments :
          (r1.quiz_id = r2.quiz_id /\ r1.user_id = r2.user_id) => r1 = r2)
  /\ [][\A ok \in BOOLEAN :
          handleAssignQuiz(ok) =>
            /\ \A r \in quiz_assignments : r \in quiz_assignments'
            /\ (ok /\ selectedUsers # {}) =>
                 \A u \in selectedUsers :
                   Cardinality({r \in quiz_assignments' :
                                  /\ r.quiz_id = adminSelectedQuiz
                                  /\ r.user_id = u}) = 1]_vars

\* The quiz was assigned again to both users, one of whom had completed it:
\* the success toast names two users and there are still the two rows.
C11_Witness ==
  /\ toast = [title |-> "Success", users |-> 2]
  /\ Cardinality(quiz_assignments) = 2
  /\ \E r \in quiz_assignments : r.is_completed /\ r.completed_at # 0

\* The submissions of learner u that belong to a completed assignment of the
\* selected quiz (of any quiz under 'all').
C12_CompletedRowsOf(u) ==
  {r \in submissions :
     \E a \in quiz_assignments :
       /\ a.id = r.assignment_id
       /\ a.user_id = u
       /\ a.is_completed
       /\ (selectedQuiz = "all" \/ a.quiz_id = selectedQuiz)}

\* C12: every entry of the list counts exactly the submissions of its
\* learner's completed assignments of the selected quiz: question count,
\* correct count and total time; submissions of an assignment in progress, or
\* of a quiz filtered out, are in none of them, and a learner with no other
\* submissions has no entry.  Each fetch lists every learner who has such
\* submissions.
C12_CompletedOnly ==
  /\ [](\A i \in 1..Len(leaderboard) :
          LET e == leaderboard[i]
              mine == C12_CompletedRowsOf(e.user_id)
          IN  /\ mine # {}
              /\ e.total_questions = Cardinality(mine)
              /\ e.correct_count = Cardinality({r \in mine : r.is_correct})
              /\ e.total_time = SumTimeTaken(mine))
  /\ [][\A u \in Range(BoardLearners) :
          C12_CompletedRowsOf(u)' # {} =>
            \E i \in 1..Len(leaderboard') : leaderboard'[i].user_id = u]_vars

\* A list has been fetched while an assignment in progress has a submission:
\* its learner is not listed.
C12_Witness ==
  /\ leaderboard # <<>>
  /\ \E a \in quiz_assignments :
       /\ ~a.is_completed
       /\ SubmissionsOf(a.id) # {}
       /\ \A i \in 1..Len(leaderboard) : leaderboard[i].user_id # a.user_id

\* C13: a session that shows a question of a quiz of N >= 1 questions comes
\* to the Completed view with the assignment marked completed, whether or
\* not the learner presses Submit: an expired countdown submits in the
\* learner's place.
C13_TimeoutCompletes ==
  \A s \in Sessions :
    (Active(s) /\ Len(questions[s]) >= 1) ~>
      (/\ quizCompleted[s]
       /\ \E r \in quiz_assignments : r.id = assignmentId[s] /\ r.is_completed)

\* C14: a session has at most one submit operation running: while one that
\* passed the guard of handleSubmitAnswer has not yet advanced the engine to
\* the next question or to the Completed view, no other one passes the guard.
C14_OneSubmitAtATime ==
  \A s \in Sessions : Len(ops[s]) <= 1

\* C15: for a question with an expected output, when the execution attempt
\* failed (the request threw, the response has no run object, or the run has
\* no output), the row the operation writes has is_correct true exactly when
\* the buffer normalizes to the canonical corrected code.
C15_FailureFallsBack ==
  [][\A s \in Sessions : \A i \in 1..Len(ops[s]) :
       LET op == ops[s][i] IN
       (op.stage = "insert" /\ expected_output(op.q) # <<>>
          /\ op.data \in {Throws, NoRun, NoStdout}) =>
         \A r \in submissions' \ submissions :
           (r.assignment_id = assignmentId[s] /\ r.question_id = op.q) =>
             r.is_correct = (normalizeCode(op.code)
                               = normalizeCode(correct_code(op.q)))]_vars

\* C16: when the insert of a submit operation returns and no row has been
\* stored, the engine stays where it is: the question index is the same and
\* the operation does not go on to completeQuiz.
C16_FailedWriteBlocks ==
  [][\A s \in Sessions : \A i \in 1..Len(ops[s]) :
       (/\ ops[s][i].stage = "insert"
        /\ pc'[s] = pc[s]
        /\ submissions' = submissions
        /\ \/ ops'[s] = RemoveAt(ops[s], i)
           \/ /\ Len(ops'[s]) = Len(ops[s])
              /\ ops'[s][i].stage # "insert") =>
         /\ currentQuestionIndex'[s] = currentQuestionIndex[s]
         /\ \A j \in 1..Len(ops'[s]) : ops'[s][j].stage # "complete"]_vars

\* C17: a session that shows a question holds the sequence that is stored:
\* the order rows of its assignment, read back by order_index, are its
\* questions.  In particular a first load whose insert of the order rows
\* failed does not get to show a question.
C17_OrderIsSaved ==
  \A s \in Sessions :
    Active(s) => questions[s] = SelectOrderedQuestions(assignmentId[s])

\* The Completed view is on screen.
C18_CompletedShown(s) ==
  pc[s] = "ready" /\ ~loading[s] /\ quizCompleted[s]

C20_StartedOnce ==
  [][\A r \in quiz_assignments :
       r.started_at # 0 =>
         \E r2 \in quiz_assignments' :
           r2.id = r.id /\ r2.started_at = r.started_at]_vars

\* The order rows of assignment a are a permutation of the quiz's questions:
\* each question has exactly one row, and the ranks are exactly 0..N-1.
C21_IsPermutation(a) ==
  LET rows == OrdersOf(a)
      N == Cardinality(db_questions)
  IN  /\ {r.question_id : r \in rows} = db_questions
      /\ {r.order_index : r \in rows} = 0..N - 1
      /\ Cardinality(rows) = N
      /\ \A r1, r2 \in rows : r1.question_id = r2.question_id => r1 = r2

\* C21: the order rows stored for an assignment are either none or a
\* permutation of the quiz's questions (each question once, ranks exactly
\* 0..N-1, one rank per (assignment, question)); and the first load that
\* stores them stores its own shuffled sequence, rank = position: read back
\* by rank the rows give that sequence.
C21_OrderIsPermutation ==
  /\ [](\A a \in RouteIds : OrdersOf(a) = {} \/ C21_IsPermutation(a))
  /\ [][\A s \in Sessions :
          (pc[s] = "insert_orders" /\ pc'[s] = "started"
             /\ question_orders' # question_orders) =>
            /\ question_orders' \ question_orders =
                 {[assignment_id |-> assignmentId[s],
                   question_id |-> questions[s][i],
                   order_index |-> i - 1] : i \in 1..Len(questions[s])}
            /\ LET stored == {r \in question_orders' :
                                r.assignment_id = assignmentId[s]}
               IN  \A r \in stored :
                     questions[s][r.order_index + 1] = r.question_id]_vars

\* Two tabs shuffled differently; the rows of one of them are stored, with
\* question 2 at rank 0, and the other's insert has been refused.
C21_Witness ==
  /\ \E r \in question_orders :
       r.assignment_id = OwnAssignment /\ r.question_id = 2 /\ r.order_index = 0
  /\ \E s, t \in Sessions :
       /\ pc[s] = "started" /\ pc[t] = "started"
       /\ questions[s] = <<2, 1>>
       /\ questions[t] = <<1, 2>>

\* The text between the first and the last character of s that is not
\* whitespace (empty when there is none).
C22_Core(s) ==
  LET solid == {i \in 1..Len(s) : s[i] \notin Whitespace}
  IN  IF solid = {} THEN <<>>
      ELSE SubSeq(s, CHOOSE i \in solid : \A j \in solid : i <= j,
                     CHOOSE i \in solid : \A j \in solid : j <= i)

\* The text up to the last character of s that is not whitespace.
C22_RightTrimmed(s) ==
  LET solid == {i \in 1..Len(s) : s[i] \notin Whitespace}
  IN  IF solid = {} THEN <<>>
      ELSE SubSeq(s, 1, CHOOSE i \in solid : \A j \in solid : j <= i)

\* The rows written by operation i of session s, judged on a captured output.
C22_JudgedRows(s, i) ==
  {r \in submissions' \ submissions :
     r.assignment_id = assignmentId[s] /\ r.question_id = ops[s][i].q}

\* C22 as stated: the row written for a captured standard output is correct
\* exactly when output and expected output are equal after right-trimming
\* only, so an output with leading whitespace before the expected text is
\* judged unequal.
C22_RightTrimOnly ==
  [][\A s \in Sessions : \A i \in 1..Len(ops[s]) :
       LET op == ops[s][i] IN
       (op.stage = "insert" /\ expected_output(op.q) # <<>>
          /\ op.data \in StdoutTexts) =>
         \A r \in C22_JudgedRows(s, i) :
           r.is_correct =
             (C22_RightTrimmed(op.data) = C22_RightTrimmed(expected_output(op.q)))]_vars

\* C22, amended: the row written for a captured standard output is correct
\* exactly when output and expected output are equal once the whitespace at
\* both ends is taken off: outputs that differ only in leading or trailing
\* whitespace are judged equal.
C22_BothEndsTrimmed ==
  [][\A s \in Sessions : \A i \in 1..Len(ops[s]) :
       LET op == ops[s][i] IN
       (op.stage = "insert" /\ expected_output(op.q) # <<>>
          /\ op.data \in StdoutTexts) =>
         \A r \in C22_JudgedRows(s, i) :
           r.is_correct =
             (C22_Core(op.data) = C22_Core(expected_output(op.q)))]_vars

\* An operation on a question whose expected output is "4" got " 4" back for
\* a buffer that does not normalize to the canonical code, and is about to
\* write a correct row.
C22_Witness ==
  \E s \in Sessions : \E i \in 1..Len(ops[s]) :
    /\ ops[s][i].stage = "insert"
    /\ expected_output(ops[s][i].q) = <<"4">>
    /\ ops[s][i].data = <<" ", "4">>
    /\ ~CodeMatches(ops[s][i].code, ops[s][i].q)
    /\ ops[s][i].isCorrect

\* The log entry of a tab switch of session s.
C23_TabSwitchEvent(s) ==
  [user_id |-> Learner, assignment_id |-> assignmentId[s],
   event_type |-> "tab_switch"]

\* C23: at every step at which the document of a session becomes hidden, if
\* a question is active (the question view is shown and the quiz is not
\* completed) the tab-switch counter goes up by exactly one and exactly one
\* entry of kind tab_switch is appended to the log; if the session is loading
\* or completed, neither the counter nor the log changes.
C23_TabSwitchCounted ==
  [][\A s \in Sessions :
       (~documentHidden[s] /\ documentHidden'[s]) =>
         /\ Active(s) =>
              /\ tabSwitchCount'[s] = tabSwitchCount[s] + 1
              /\ cheat_logs' = Append(cheat_logs, C23_TabSwitchEvent(s))
         /\ (loading[s] \/ quizCompleted[s]) =>
              /\ tabSwitchCount'[s] = tabSwitchCount[s]
              /\ cheat_logs' = cheat_logs]_vars

\* isCorrect as handleSubmitAnswer decides it, from the operation's question,
\* buffer and execution response alone.
C24_Judged(op) ==
  IF expected_output(op.q) = <<>> \/ op.data = Throws
    THEN normalizeCode(op.code) = normalizeCode(correct_code(op.q))
    ELSE op.data \in StdoutTexts
           /\ C22_Core(op.data) = C22_Core(expected_output(op.q))

\* C24: a step that is an anti-cheat event (the document's visibility, the
\* tab-switch counter or the log changes) leaves the current question index,
\* the code buffer, the remaining time, the submitting flag, the submissions
\* and the completion flag as they are; and the is_correct of every row
\* written is decided by the operation's question, buffer and execution
\* response, whatever the counter and the log hold.
C24_CheatFrame ==
  [][/\ cheatVars' # cheatVars =>
          UNCHANGED <<currentQuestionIndex, userCode, timeLeft, isSubmitting,
                      submissions, quizCompleted>>
     /\ \A r \in submissions' \ submissions :
          \E s \in Sessions : \E i \in 1..Len(ops[s]) :
            /\ ops[s][i].stage = "insert"
            /\ r = [assignment_id |-> assignmentId[s],
                    question_id |-> ops[s][i].q,
                    is_correct |-> C24_Judged(ops[s][i]),
                    time_taken |-> ops[s][i].timeTaken]]_vars

\* After a logged tab switch and a logged copy/paste attempt on the first
\* question, its row is stored correct and the second question is active.
C24_Witness ==
  \E s \in Sessions :
    /\ Active(s)
    /\ currentQuestionIndex[s] = 1
    /\ tabSwitchCount[s] = 1
    /\ {cheat_logs[i].event_type : i \in 1..Len(cheat_logs)} =
         {"tab_switch", "copy_paste_attempt"}
    /\ \E r \in SubmissionsOf(assignmentId[s]) :
         r.question_id = questions[s][1] /\ r.is_correct

\* C25: every stored submission has a time_taken no greater than the quiz's
\* per-question limit: no row is recorded for a question after its countdown
\* has reached zero.
C25_WithinLimit ==
  \A r \in submissions :
    \A a \in quiz_assignments :
      a.id = r.assignment_id => r.time_taken <= time_per_question(a.quiz_id)

\* C26: whenever the completion flag of an assignment is set, every question
\* of its stored order has exactly one submission, and the submissions of the
\* assignment (the tally's total) are as many as the questions of the order.
C26_CompletedIsAnswered ==
  \A a \in quiz_assignments :
    a.is_completed =>
      /\ \A o \in OrdersOf(a.id) :
           Cardinality({r \in SubmissionsOf(a.id) :
                          r.question_id = o.question_id}) = 1
      /\ Tally(a.id).total = Cardinality(OrdersOf(a.id))

\* C27: with two sessions loading the same assignment that has no order yet,
\* each session plays the sequence that ends up stored: when a session that
\* found no order comes back from its insert of the order rows and the
\* assignment has order rows (its own, or those another session stored in
\* the meantime), these rows, read by rank, are the session's questions.
C27_LoadedIsStored ==
  [][\A s \in Sessions :
       LET stored == {o \in question_orders' :
                        o.assignment_id = assignmentId[s]}
       IN  (pc[s] = "insert_orders" /\ pc'[s] = "started" /\ stored # {}) =>
             \A o \in stored :
               QuestionAt(questions'[s], o.order_index) = o.question_id]_vars

\* C28: the list shown is determined by the set of rows selected: entries
\* with the same correct count, total time and question count carry the same
\* score, and the list is the one any order of arrival of the rows gives.
C28_FunctionOfRows ==
  /\ \A i, j \in 1..Len(leaderboard) :
       (/\ leaderboard[i].correct_count = leaderboard[j].correct_count
        /\ leaderboard[i].total_time = leaderboard[j].total_time
        /\ leaderboard[i].total_questions = leaderboard[j].total_questions)
         => leaderboard[i].score = leaderboard[j].score
  /\ leaderboard # <<>> =>
       \A firstSeen \in FirstSeenOrders(SelectBoardRows(selectedQuiz)) :
         leaderboard = FetchedLeaderboard(selectedQuiz, firstSeen)

\* C29: in the list shown the scores do not increase down the ranks: no entry
\* has a higher score than an entry listed above it.
C29_ScoresDescend ==
  \A i, j \in 1..Len(leaderboard) :
    i < j => leaderboard[i].score >= leaderboard[j].score

\* An operation of session s has issued, or is about to issue, its
\* submissions insert for the question at the session's current index.
C30_WriteIssued(s) ==
  \E i \in 1..Len(ops[s]) :
    /\ ops[s][i].stage = "insert"
    /\ ops[s][i].q = QuestionAt(questions[s], currentQuestionIndex[s])

\* C30 as stated: within one session (from one mount to the next) the index
\* stays within 0..N, and every change of it is by exactly +1, at the return
\* of a submissions insert issued for the question at the old index.
C30_IndexStepsByOne ==
  /\ [](\A s \in Sessions :
          currentQuestionIndex[s] \in 0..Len(questions[s]))
  /\ [][\A s \in Sessions :
          (pc'[s] # "assignment"
             /\ currentQuestionIndex'[s] # currentQuestionIndex[s]) =>
            /\ currentQuestionIndex'[s] = currentQuestionIndex[s] + 1
            /\ C30_WriteIssued(s)]_vars

\* C30, amended: within one session the index stays within 0..N and never
\* decreases; it changes either once at the end of the load, from 0 to the
\* resume index, every question before which has a stored submission, or by
\* exactly +1 at the return of a submissions insert issued for the question
\* at the old index.
C30_IndexAdvances ==
  /\ [](\A s \in Sessions :
          currentQuestionIndex[s] \in 0..Len(questions[s]))
  /\ [][\A s \in Sessions :
          (pc'[s] # "assignment"
             /\ currentQuestionIndex'[s] # currentQuestionIndex[s]) =>
            \/ /\ pc[s] = "subs"
               /\ currentQuestionIndex[s] = 0
               /\ currentQuestionIndex'[s] \in 1..Len(questions[s])
               /\ \A k \in 1..currentQuestionIndex'[s] :
                    \E r \in submissions :
                      /\ r.assignment_id = assignmentId[s]
                      /\ r.question_id = questions[s][k]
            \/ /\ pc[s] = "ready"
               /\ currentQuestionIndex'[s] = currentQuestionIndex[s] + 1
               /\ C30_WriteIssued(s)]_vars

\* The second question is active although nothing is stored: the index went
\* up at the return of an insert that was issued and did not reach storage.
C30_Witness ==
  \E s \in Sessions :
    /\ Active(s)
    /\ currentQuestionIndex[s] = 1
    /\ SubmissionsOf(assignmentId[s]) = {}
    /\ ops[s] = <<>>

====
